---- MODULE Spec2Model ----
(***************************************************************************)
(* Chunked upload session engine of smart-upload-manager.py:               *)
(* SmartUploadManager.create_upload_session, save_session, load_session,   *)
(* parallel_upload, upload_chunk_to_github and resume_upload, run on one   *)
(* asyncio event loop.  A step of the model is one stretch of a coroutine  *)
(* between two awaits; the blocking remote call in the middle of an        *)
(* attempt is split at the call so that an upload in progress is a state.  *)
(***************************************************************************)
EXTENDS Integers, Sequences, FiniteSets, TLC

\* ---------------------------------------------------------------- bounds
MaxChunks == 2          \* chunks a planned session may hold
MaxConcurrent == 2      \* largest max_concurrent a direct caller passes
MaxWait == 1            \* longest rate-limit wait the remote reports
MaxRetryCount == 3      \* largest retry_count a chunk is followed to

MaxFileMiB == 150       \* largest file planned, in MiB (sizes are in bytes)
MaxFiles == 2           \* files a source directory may hold
MaxClock == 2           \* readings 1..MaxClock of datetime.now()
MaxCalls == 2           \* calls of create_upload_session followed
MaxElapsed == 1000      \* longest answer to the probe upload, in 10 ms

\* ------------------------------------------------------ program constants
max_retries == 3
DefaultMaxConcurrent == 3
NoTime == 0
\* time.time(): every reading is the one value that is not None
time_time == 1

NoSession == [none |-> TRUE]

\* ---------------------------------------------------------------- helpers
RECURSIVE gcd(_, _)
gcd(a, b) == IF b = 0 THEN a ELSE gcd(b, a % b)

RECURSIVE Pow2(_)
Pow2(n) == IF n = 0 THEN 1 ELSE 2 * Pow2(n - 1)

\* (uploaded_count / len(session.chunks)) * 100, kept as the reduced
\* fraction uploaded_count / len (the float is a function of that fraction)
Percentage(count, total) ==
    LET g == gcd(count, total) IN <<count \div g, total \div g>>

ZeroPercent == <<0, 1>>

\* the sessions the scheduler is followed on are planned from one file at
\* the 'medium' chunk size, the last chunk holding what is left of the file
PlannedSize(i, n) == IF i < n THEN 5 * 1024 * 1024 ELSE 1024

\* sum(c.size for c in chunks) over the first k of n planned chunks
RECURSIVE PlannedTotal(_, _)
PlannedTotal(n, k) ==
    IF k = 0 THEN 0 ELSE PlannedTotal(n, k - 1) + PlannedSize(k, n)

ChunkInfo(i, n) ==
    [chunk_id |-> <<"session", "file", i - 1>>, file_path |-> "file",
     chunk_index |-> i - 1, total_chunks |-> n,
     size |-> PlannedSize(i, n), checksum |-> <<"sha256", i - 1>>,
     uploaded |-> FALSE, upload_time |-> NoTime, retry_count |-> 0]

UploadSession(n, t) ==
    [session_id |-> "session", repo_name |-> "owner/repo",
     source_path |-> "file",
     total_size |-> PlannedTotal(n, n),
     chunks |-> [i \in 1..n |-> ChunkInfo(i, n)],
     start_time |-> t,
     completed |-> FALSE,
     progress_percentage |-> ZeroPercent]

\* datetime.isoformat / datetime.fromisoformat
isoformat(t) == <<"iso", t>>
fromisoformat(s) == s[2]

\* save_session: asdict(session) with start_time as an ISO string
asdict(session) == [session EXCEPT !.start_time = isoformat(session.start_time)]

\* variant of load_session: the chunks are rebuilt with the default
\* upload_time
load_session_defaults(file) ==
    IF file = NoSession THEN NoSession
    ELSE [file EXCEPT !.start_time = fromisoformat(file.start_time),
                      !.chunks = [i \in DOMAIN file.chunks |->
                          [file.chunks[i] EXCEPT !.upload_time = NoTime]]]

\* load_session: the stored dict back to an UploadSession, None when absent
load_session(file) ==
    IF file = NoSession THEN NoSession
    ELSE [file EXCEPT !.start_time = fromisoformat(file.start_time)]

uploaded_count(session) ==
    Cardinality({i \in DOMAIN session.chunks : session.chunks[i].uploaded})

\* pending_chunks = [c for c in session.chunks if not c.uploaded]
RECURSIVE PendingFrom(_, _)
PendingFrom(chunks, i) ==
    IF i > Len(chunks) THEN <<>>
    ELSE IF ~chunks[i].uploaded THEN <<i>> \o PendingFrom(chunks, i + 1)
    ELSE PendingFrom(chunks, i + 1)

\* variants of pending_chunks: no filter; every pending chunk listed twice
pending_chunks_unfiltered(session) == [i \in 1..Len(session.chunks) |-> i]

pending_chunks_twice(session) ==
    PendingFrom(session.chunks, 1) \o PendingFrom(session.chunks, 1)

pending_chunks(session) == PendingFrom(session.chunks, 1)

\* ------------------------------------------------ create_smart_chunks
MiB == 1024 * 1024

\* SmartUploadManager.CHUNK_SIZES
CHUNK_SIZES ==
    [slow |-> 1 * 1024 * 1024, medium |-> 5 * 1024 * 1024,
     fast |-> 10 * 1024 * 1024, ultra |-> 25 * 1024 * 1024]

Profiles == DOMAIN CHUNK_SIZES

min(a, b) == IF a <= b THEN a ELSE b

\* The bytes of a file are named by their positions: data is the pair
\* <<from, to>> of the positions [from, to) it was read from, and the empty
\* bytes object is NoData wherever it was read.  Equal pairs are equal
\* bytes in every file; unequal pairs are unequal bytes in a file whose
\* windows all differ (os.urandom content, as the tests write it).
NoData == <<0, 0>>

len(data) == data[2] - data[1]

\* f.read(n) with the file position at pos, in a file of file_size bytes
read(size, pos, n) ==
    IF pos >= size \/ n <= 0 THEN NoData ELSE <<pos, min(pos + n, size)>>

\* variant of tell: a read leaves the position where it was
tell_stuck(pos, data) == pos

\* the file position after a read that began at pos
tell(pos, data) == pos + len(data)

\* hashlib.sha256(data).hexdigest(), free of collisions
sha256(data) == <<"sha256", data>>

\* base64.b64encode(data).decode('utf-8') and what the remote decodes
b64encode(data) == <<"b64", data>>
b64decode(content) == content[2]

\* variant of is_large_file: a file of exactly 100 MiB counts as large
is_large_file_inclusive(size) == size >= 100 * 1024 * 1024

\* "if file_size > 100 * 1024 * 1024"
is_large_file(size) == size > 100 * 1024 * 1024

\* variant of chunk_size: the doubling applies to every file
chunk_size_doubled(size, speed) ==
    min(CHUNK_SIZES[speed] * 2, 50 * 1024 * 1024)

\* chunk_size as lines 196-200 leave it
chunk_size(size, speed) ==
    IF is_large_file(size)
    THEN min(CHUNK_SIZES[speed] * 2, 50 * 1024 * 1024)
    ELSE CHUNK_SIZES[speed]

\* variant of num_chunks: the division rounds down
num_chunks_floor(size, cs) == size \div cs

\* num_chunks = (file_size + chunk_size - 1) // chunk_size
num_chunks(size, cs) == (size + cs - 1) \div cs

\* the ChunkInfo of lines 210-217, without the fields naming the file
chunk_info(i, total, chunk_data) ==
    [chunk_index |-> i, total_chunks |-> total,
     size |-> len(chunk_data), checksum |-> sha256(chunk_data)]

\* "for i in range(num_chunks)", iterations i..j-1 with the file position at
\* pos when iteration i begins: the chunks appended and the position the
\* last read leaves.  Each read starts where the one before it ended; the
\* range of iterations is halved so that the evaluation stays shallow for a
\* file of many chunks.
RECURSIVE read_chunks(_, _, _, _, _, _)
read_chunks(size, cs, total, i, j, pos) ==
    IF i >= j THEN [chunks |-> <<>>, pos |-> pos]
    ELSE IF j = i + 1
    THEN LET chunk_data == read(size, pos, cs) IN
         [chunks |-> <<chunk_info(i, total, chunk_data)>>,
          pos |-> tell(pos, chunk_data)]
    ELSE LET mid == (i + j) \div 2
             head == read_chunks(size, cs, total, i, mid, pos)
             rest == read_chunks(size, cs, total, mid, j, head.pos)
         IN  [chunks |-> head.chunks \o rest.chunks, pos |-> rest.pos]

create_smart_chunks(size, speed) ==
    LET cs == chunk_size(size, speed)
        total == num_chunks(size, cs)
    IN  read_chunks(size, cs, total, 0, total, 0).chunks

\* chunk_index * CHUNK_SIZES[network_speed], the position f.seek moves to.
\* Python's integers are unbounded: a product past the end of the file is
\* given as the end of the file, where read returns the same empty bytes.
seek_position(size, index, cs) ==
    IF index > size \div cs THEN size ELSE index * cs

\* upload_chunk_to_github, lines 263-268: the content put for a chunk
chunk_content(size, speed, chunk) ==
    b64encode(read(size,
                   seek_position(size, chunk.chunk_index, CHUNK_SIZES[speed]),
                   chunk.size))

VARIABLES
    store,        \* .upload_sessions/<id>.json: the saved dict or NoSession
    sessions,     \* self.sessions[session_id]: the session or NoSession
    resumed,      \* the session object resume_upload works on, or NoSession
    ctl,          \* "idle" | "run" | "raised": position of the caller
    runOn,        \* "none" | "sessions" | "resumed": object the run mutates
    caller,       \* "none" | "upload" | "resume"
    max_concurrent, \* the max_concurrent argument of the run
    semaphore,    \* value of the asyncio.Semaphore of the run
    tasks,        \* tasks[t] = index of the chunk of the t-th upload task
    tstate,       \* per task: pc, attempt (loop variable), timer of its sleep, result
    awaiting,     \* index of the task parallel_upload is awaiting
    running,      \* task inside the blocking remote call, 0 when none
    rateReset,    \* time left until the latest reset time reported to the run
    acked,        \* chunks whose remote put has returned success
    restarted,    \* the process was stopped and started anew
    ackedAtStop,  \* acked as it was when the process stopped
    returned,     \* what the last call gave back to its caller
    network_speed, \* self.network_speed
    file_size,    \* st_size of the source file
    file_chunks,  \* the list create_smart_chunks returned for the file
    contents,     \* per chunk, the content put to the remote for it
    step,         \* "new" | "planned" | "sent": how far the file has come
    probe,        \* the last probe upload of analyze_network_speed
    tree,         \* the files under the source directory, in rglob order
    now,          \* the latest reading of datetime.now(), 0 before any
    calls,        \* number of create_upload_session calls made
    registry,     \* self.sessions: session_id -> UploadSession
    session_files, \* .upload_sessions/: session_id -> saved dict
    call          \* the last create_upload_session call and its outcome

\* the scheduler and the session store
engineVars == <<store, sessions, resumed, ctl, runOn, caller, max_concurrent,
                semaphore, tasks,
                tstate, awaiting, running, rateReset, acked, restarted,
                ackedAtStop, returned>>

\* one source file on its way from planning to the remote
fileVars == <<network_speed, file_size, file_chunks, contents, step, probe>>

\* a source tree and the sessions created from it
dirVars == <<tree, now, calls, registry, session_files, call>>

\* all that planning is about
planVars == <<fileVars, dirVars>>

vars == <<engineVars, fileVars, dirVars>>

hist == <<acked, restarted, ackedAtStop>>

\* no file is being planned: __init__ leaves network_speed at 'medium'
NoProbe == [outcome |-> "none", elapsed |-> 0]

NoFile ==
    /\ probe = NoProbe
    /\ network_speed = "medium"
    /\ file_size = 0
    /\ file_chunks = <<>>
    /\ contents = <<>>
    /\ step = "new"

\* no session, no run
NoRun ==
    /\ store = NoSession
    /\ sessions = NoSession
    /\ resumed = NoSession
    /\ ctl = "idle"
    /\ runOn = "none"
    /\ caller = "none"
    /\ max_concurrent = 0
    /\ semaphore = 0
    /\ tasks = <<>>
    /\ tstate = <<>>
    /\ awaiting = 0
    /\ running = 0
    /\ rateReset = 0
    /\ acked = {}
    /\ restarted = FALSE
    /\ ackedAtStop = {}
    /\ returned = [call |-> "none"]

\* no source tree, no session created
NoTree ==
    /\ tree = <<>>
    /\ now = 0
    /\ calls = 0
    /\ registry = <<>>
    /\ session_files = <<>>
    /\ call = [outcome |-> "none"]

Init == NoFile /\ NoTree /\ NoRun

\* the session object the run in progress works on
cur == IF runOn = "sessions" THEN sessions ELSE resumed

SetCur(s) ==
    IF runOn = "sessions"
    THEN sessions' = s /\ UNCHANGED resumed
    ELSE resumed' = s /\ UNCHANGED sessions

\* a call that is in progress, raised, or returns None
NoValue == [call |-> "none"]

\* "return True" under all(c.uploaded ...), "return False" otherwise; a
\* direct parallel_upload returns None
ReturnOf(who, session) ==
    IF who = "resume"
    THEN [call |-> "resume_upload",
          value |-> \A i \in DOMAIN session.chunks : session.chunks[i].uploaded]
    ELSE NoValue

\* variant of NotFoundFalse: a session that is not found counts as resumed
NotFoundTrue == [call |-> "resume_upload", value |-> TRUE]

\* resume_upload: "return False" for a session that is not found
NotFoundFalse == [call |-> "resume_upload", value |-> FALSE]

Task(pc, attempt, timer, result) ==
    [pc |-> pc, attempt |-> attempt, timer |-> timer, result |-> result]

NewTask == Task("created", 0, 0, FALSE)

\* a task that has returned result
DoneTask(result) == Task("done", 0, 0, result)

TasksIn(pcs) == {t \in DOMAIN tstate : tstate[t].pc \in pcs}

Min(S) == CHOOSE x \in S : \A y \in S : x <= y

\* the event loop runs the tasks created by parallel_upload in creation
\* order before any timer or wake-up it queued later
NoneCreated == TasksIn({"created"}) = {}

\* asyncio.Semaphore
locked(value) == value = 0
\* variant of acquire: the value is not taken
acquire_keeps(value) == value

acquire(value) == value - 1
release(value) == value + 1

\* variant of backoff: 2 * attempt
backoff_linear(attempt) == 2 * attempt

\* asyncio.sleep(2 ** attempt)
backoff(attempt) == Pow2(attempt)

\* ------------------------------------------------ create_upload_session
\* plans n chunks, registers the session and saves it
create_upload_session(n, t) ==
    /\ ctl = "idle"
    /\ store = NoSession
    /\ sessions = NoSession
    /\ ~restarted
    /\ sessions' = UploadSession(n, t)
    /\ store' = asdict(sessions')
    /\ returned' = NoValue
    /\ UNCHANGED <<resumed, ctl, runOn, caller, max_concurrent, semaphore, tasks, tstate,
                   awaiting, running, rateReset>>
    /\ UNCHANGED hist
    /\ UNCHANGED planVars

\* --------------------------------------------------------- parallel_upload
\* what the caller does with the session once parallel_upload has returned:
\* resume_upload sets completed when every chunk is uploaded, main does not
\* variant of AfterRun: resume_upload sets completed without the all() test
AfterRun_unchecked(session, who) ==
    IF who = "resume" THEN [session EXCEPT !.completed = TRUE] ELSE session

AfterRun(session, who) ==
    IF who = "resume" /\ \A i \in DOMAIN session.chunks : session.chunks[i].uploaded
    THEN [session EXCEPT !.completed = TRUE]
    ELSE session

\* variant of UpdateProgress: the loop leaves progress_percentage as it is
UpdateProgress_stale(session) == session

\* session.progress_percentage = (uploaded_count / len(session.chunks)) * 100
UpdateProgress(session) ==
    [session EXCEPT !.progress_percentage =
        Percentage(uploaded_count(session), Len(session.chunks))]

\* the call up to its first await: semaphore, pending filter, task creation
StartRun(session, on, mc, who) ==
    LET pend == pending_chunks(session) IN
    /\ tasks' = pend
    /\ tstate' = [t \in DOMAIN pend |-> NewTask]
    /\ running' = 0
    /\ rateReset' = 0
    /\ IF pend = <<>>
       THEN /\ ctl' = "idle"
            /\ runOn' = "none"
            /\ caller' = "none"
            /\ max_concurrent' = 0
            /\ semaphore' = 0
            /\ awaiting' = 0
            /\ returned' = ReturnOf(who, session)
            /\ IF on = "sessions"
               THEN sessions' = AfterRun(session, who) /\ UNCHANGED resumed
               ELSE resumed' = AfterRun(session, who) /\ UNCHANGED sessions
       ELSE /\ ctl' = "run"
            /\ runOn' = on
            /\ caller' = who
            /\ max_concurrent' = mc
            /\ semaphore' = mc
            /\ awaiting' = 1
            /\ returned' = NoValue
            /\ IF on = "sessions"
               THEN sessions' = session /\ UNCHANGED resumed
               ELSE resumed' = session /\ UNCHANGED sessions

\* main 'upload' and the orchestrator: parallel_upload on the registered session
parallel_upload(mc) ==
    /\ ctl = "idle"
    /\ sessions # NoSession
    /\ StartRun(sessions, "sessions", mc, "upload")
    /\ UNCHANGED store
    /\ UNCHANGED hist
    /\ UNCHANGED planVars

\* resume_upload: load, then parallel_upload with the default concurrency
\* (main 'resume': one call in a process that has no session in memory)
resume_upload ==
    /\ ctl = "idle"
    /\ sessions = NoSession
    /\ resumed = NoSession
    /\ LET session == load_session(store) IN
         IF session = NoSession
         THEN /\ returned' = NotFoundFalse
              /\ UNCHANGED <<sessions, resumed, ctl, runOn, caller,
                             max_concurrent, semaphore, tasks, tstate,
                             awaiting, running, rateReset>>
         ELSE StartRun(session, "resumed", DefaultMaxConcurrent, "resume")
    /\ UNCHANGED store
    /\ UNCHANGED hist
    /\ UNCHANGED planVars

\* ------------------------------------------------- upload_with_semaphore
\* a task enters the remote call of its next attempt
BeginCall(t, attempt) ==
    /\ tstate' = [tstate EXCEPT ![t] = Task("calling", attempt, 0, FALSE)]
    /\ running' = t

\* first step of a task: async with semaphore, then attempt 0
TaskStart(t) ==
    /\ ctl = "run" /\ running = 0
    /\ TasksIn({"created"}) # {} /\ t = Min(TasksIn({"created"}))
    /\ IF locked(semaphore)
       THEN /\ tstate' = [tstate EXCEPT ![t].pc = "waiting"]
            /\ UNCHANGED <<semaphore, running>>
       ELSE /\ semaphore' = acquire(semaphore)
            /\ BeginCall(t, 0)
    /\ UNCHANGED <<store, sessions, resumed, ctl, runOn, caller, max_concurrent, tasks,
                   awaiting, rateReset, acked, restarted, ackedAtStop>>
    /\ UNCHANGED returned
    /\ UNCHANGED planVars

\* a task blocked in acquire is woken, first come first served
Admit(t) ==
    /\ ctl = "run" /\ running = 0 /\ NoneCreated
    /\ TasksIn({"waiting"}) # {} /\ t = Min(TasksIn({"waiting"}))
    /\ ~locked(semaphore)
    /\ semaphore' = acquire(semaphore)
    /\ BeginCall(t, 0)
    /\ UNCHANGED <<store, sessions, resumed, ctl, runOn, caller, max_concurrent, tasks,
                   awaiting, rateReset, acked, restarted, ackedAtStop>>
    /\ UNCHANGED returned
    /\ UNCHANGED planVars

\* variant of Wake: the task goes on before its sleep is over
Wake_early(t) ==
    /\ ctl = "run" /\ running = 0 /\ NoneCreated
    /\ t \in TasksIn({"backoff", "ratewait"})
    /\ IF tstate[t].attempt + 1 < max_retries
       THEN /\ BeginCall(t, tstate[t].attempt + 1)
            /\ UNCHANGED semaphore
       ELSE /\ tstate' = [tstate EXCEPT ![t] = DoneTask(FALSE)]
            /\ semaphore' = release(semaphore)
            /\ UNCHANGED running
    /\ UNCHANGED <<store, sessions, resumed, ctl, runOn, caller, max_concurrent, tasks,
                   awaiting, rateReset, acked, restarted, ackedAtStop>>
    /\ UNCHANGED returned
    /\ UNCHANGED planVars

\* a sleep is over: next iteration of "for attempt in range(max_retries)",
\* or "return False" when the range is exhausted
Wake(t) ==
    /\ ctl = "run" /\ running = 0 /\ NoneCreated
    /\ t \in TasksIn({"backoff", "ratewait"})
    /\ tstate[t].timer = 0
    /\ IF tstate[t].attempt + 1 < max_retries
       THEN /\ BeginCall(t, tstate[t].attempt + 1)
            /\ UNCHANGED semaphore
       ELSE /\ tstate' = [tstate EXCEPT ![t] = DoneTask(FALSE)]
            /\ semaphore' = release(semaphore)
            /\ UNCHANGED running
    /\ UNCHANGED <<store, sessions, resumed, ctl, runOn, caller, max_concurrent, tasks,
                   awaiting, rateReset, acked, restarted, ackedAtStop>>
    /\ UNCHANGED returned
    /\ UNCHANGED planVars

\* ------------------------------------------------ upload_chunk_to_github
\* variant of OnSuccess: the chunk's size is written off as well
OnSuccess_resized(chunk, stamp) ==
    [chunk EXCEPT !.uploaded = TRUE, !.upload_time = stamp, !.size = 0]

\* repo.create_file returned: chunk.uploaded = True, upload_time, return True
OnSuccess(chunk, stamp) ==
    [chunk EXCEPT !.uploaded = TRUE, !.upload_time = stamp]

\* except RateLimitExceededException: the chunk is left as it is
OnRateLimit(chunk) == chunk

\* variant of OnError: the handler also marks the chunk uploaded
OnError_marks(chunk) ==
    [chunk EXCEPT !.retry_count = chunk.retry_count + 1, !.uploaded = TRUE]

\* except Exception: chunk.retry_count += 1
OnError(chunk) == [chunk EXCEPT !.retry_count = chunk.retry_count + 1]

\* "if attempt < self.max_retries - 1" guards the backoff sleep
SleepsAfterError(attempt) == attempt < max_retries - 1

PutSuccess(t) ==
    /\ running = t
    /\ SetCur([cur EXCEPT !.chunks[tasks[t]] = OnSuccess(@, time_time)])
    /\ acked' = acked \cup {tasks[t]}
    /\ tstate' = [tstate EXCEPT ![t] = DoneTask(TRUE)]
    /\ semaphore' = release(semaphore)
    /\ running' = 0
    /\ UNCHANGED <<store, ctl, runOn, caller, max_concurrent, tasks, awaiting, rateReset,
                   restarted, ackedAtStop>>
    /\ UNCHANGED returned
    /\ UNCHANGED planVars

\* the remote call of the attempt raises anything but a rate-limit signal
\* (counted in retry_count, which the model follows up to MaxRetryCount)
PutError(t) ==
    /\ running = t
    /\ cur.chunks[tasks[t]].retry_count < MaxRetryCount
    /\ SetCur([cur EXCEPT !.chunks[tasks[t]] = OnError(@)])
    /\ IF SleepsAfterError(tstate[t].attempt)
       THEN /\ tstate' = [tstate EXCEPT ![t].pc = "backoff",
                                        ![t].timer = backoff(tstate[t].attempt)]
            /\ UNCHANGED semaphore
       ELSE /\ tstate' = [tstate EXCEPT ![t] = DoneTask(FALSE)]
            /\ semaphore' = release(semaphore)
    /\ running' = 0
    /\ UNCHANGED <<store, ctl, runOn, caller, max_concurrent, tasks, awaiting, rateReset,
                   acked, restarted, ackedAtStop>>
    /\ UNCHANGED returned
    /\ UNCHANGED planVars

\* the remote reports its reset time d time units ahead (0: already past);
\* while a reported reset time is still ahead, the remote reports that one
PutRateLimited(t, d) ==
    /\ running = t
    /\ rateReset > 0 => d = rateReset
    /\ SetCur([cur EXCEPT !.chunks[tasks[t]] = OnRateLimit(@)])
    /\ tstate' = [tstate EXCEPT ![t].pc = "ratewait", ![t].timer = d]
    /\ rateReset' = d
    /\ running' = 0
    /\ UNCHANGED <<store, ctl, runOn, caller, max_concurrent, semaphore, tasks, awaiting,
                   acked, restarted, ackedAtStop>>
    /\ UNCHANGED returned
    /\ UNCHANGED planVars

\* get_rate_limit() itself fails inside the rate-limit handler: the
\* exception leaves upload_chunk_to_github and the task ends with it
PutRateLimitedRaises(t) ==
    /\ running = t
    /\ tstate' = [tstate EXCEPT ![t] = Task("raised", 0, 0, FALSE)]
    /\ semaphore' = release(semaphore)
    /\ running' = 0
    /\ UNCHANGED <<store, sessions, resumed, ctl, runOn, caller, max_concurrent, tasks,
                   awaiting, rateReset, acked, restarted, ackedAtStop>>
    /\ UNCHANGED returned
    /\ UNCHANGED planVars

\* ------------------------------------------- parallel_upload, await loop
\* first task from i on that is not done (Len + 1 when there is none)
RECURSIVE FirstNotDone(_)
FirstNotDone(i) ==
    IF i > Len(tstate) THEN i
    ELSE IF tstate[i].pc = "done" THEN FirstNotDone(i + 1)
    ELSE i

\* "success = await task" resumes: the loop runs over every task that is
\* already done, updating progress_percentage, until it has to wait again,
\* an awaited task raises, or the list is exhausted and the call returns
AwaitStep ==
    /\ ctl = "run" /\ running = 0 /\ NoneCreated
    /\ awaiting <= Len(tasks)
    /\ tstate[awaiting].pc \in {"done", "raised"}
    /\ LET k == FirstNotDone(awaiting)
           s == IF k > awaiting THEN UpdateProgress(cur) ELSE cur
       IN  IF k > Len(tasks)
           THEN /\ SetCur(AfterRun(s, caller))
                /\ ctl' = "idle"
                /\ runOn' = "none"
                /\ caller' = "none"
                /\ awaiting' = 0
                /\ rateReset' = 0
                /\ returned' = ReturnOf(caller, s)
                /\ UNCHANGED max_concurrent
           ELSE IF tstate[k].pc = "raised"
           THEN /\ SetCur(s)
                /\ ctl' = "raised"
                /\ awaiting' = k
                /\ UNCHANGED <<runOn, caller, max_concurrent, rateReset, returned>>
           ELSE /\ SetCur(s)
                /\ awaiting' = k
                /\ UNCHANGED <<ctl, runOn, caller, max_concurrent, rateReset,
                               returned>>
    /\ UNCHANGED <<store, semaphore, tasks, tstate, running>>
    /\ UNCHANGED hist
    /\ UNCHANGED planVars

\* ----------------------------------------------------- get_session_status
\* {'error': 'Session not found'}
SessionNotFound == [error |-> "Session not found"]

\* variant of uploaded_size: the sizes of all chunks are added up
RECURSIVE uploaded_size_all(_, _)
uploaded_size_all(chunks, k) ==
    IF k = 0 THEN 0 ELSE uploaded_size_all(chunks, k - 1) + chunks[k].size

\* uploaded_size = sum(c.size for c in session.chunks if c.uploaded)
RECURSIVE uploaded_size(_, _)
uploaded_size(chunks, k) ==
    IF k = 0 THEN 0
    ELSE uploaded_size(chunks, k - 1)
             + (IF chunks[k].uploaded THEN chunks[k].size ELSE 0)

\* size / (1024 * 1024), kept as the reduced fraction
in_mb(size) == Percentage(size, 1024 * 1024)

\* the status dict but for 'elapsed_time' and 'eta', which are read off
\* the clock
status_dict(session) ==
    IF session = NoSession THEN SessionNotFound
    ELSE [session_id |-> session.session_id,
          repo_name |-> session.repo_name,
          source_path |-> session.source_path,
          total_chunks |-> Len(session.chunks),
          uploaded_chunks |-> uploaded_count(session),
          total_size_mb |-> in_mb(session.total_size),
          uploaded_size_mb |->
              in_mb(uploaded_size(session.chunks, Len(session.chunks))),
          failed_chunks |->
              Cardinality({i \in DOMAIN session.chunks :
                              session.chunks[i].retry_count >= max_retries}),
          progress_percentage |-> session.progress_percentage,
          completed |-> session.completed]

\* session = self.sessions.get(session_id) or self.load_session(session_id),
\* called while no run is in progress (main 'status', end of main 'upload')
get_session_status ==
    /\ ctl = "idle"
    /\ LET session == IF sessions # NoSession THEN sessions
                      ELSE load_session(store)
       IN  returned' = [call |-> "get_session_status",
                        value |-> status_dict(session)]
    /\ UNCHANGED <<store, sessions, resumed, ctl, runOn, caller, max_concurrent,
                   semaphore, tasks, tstate, awaiting, running, rateReset>>
    /\ UNCHANGED hist
    /\ UNCHANGED planVars

\* ------------------------------------------------------------ environment
Sleeping == {t \in TasksIn({"backoff", "ratewait"}) : tstate[t].timer > 0}

\* one time unit passes
Tick ==
    /\ Sleeping # {} \/ rateReset > 0
    /\ tstate' = [t \in DOMAIN tstate |->
                    IF t \in Sleeping
                    THEN [tstate[t] EXCEPT !.timer = @ - 1]
                    ELSE tstate[t]]
    /\ rateReset' = IF rateReset > 0 THEN rateReset - 1 ELSE 0
    /\ UNCHANGED <<store, sessions, resumed, ctl, runOn, caller, max_concurrent, semaphore,
                   tasks, awaiting, running>>
    /\ UNCHANGED hist
    /\ UNCHANGED returned
    /\ UNCHANGED planVars

\* the process stops (kill, crash, exit after an uncaught exception) and a
\* new one starts: the session file and the remote store are all that is left
Restart ==
    /\ store # NoSession
    /\ ~restarted
    /\ sessions' = NoSession
    /\ resumed' = NoSession
    /\ ctl' = "idle"
    /\ runOn' = "none"
    /\ caller' = "none"
    /\ max_concurrent' = 0
    /\ semaphore' = 0
    /\ tasks' = <<>>
    /\ tstate' = <<>>
    /\ awaiting' = 0
    /\ running' = 0
    /\ rateReset' = 0
    /\ restarted' = TRUE
    /\ ackedAtStop' = acked
    /\ returned' = NoValue
    /\ UNCHANGED <<store, acked>>
    /\ UNCHANGED planVars

Next ==
    \/ \E n \in 0..MaxChunks : create_upload_session(n, 1)
    \/ \E mc \in 1..MaxConcurrent : parallel_upload(mc)
    \/ resume_upload
    \/ \E t \in DOMAIN tstate : TaskStart(t)
    \/ \E t \in DOMAIN tstate : Admit(t)
    \/ \E t \in DOMAIN tstate : Wake(t)
    \/ \E t \in DOMAIN tstate : PutSuccess(t)
    \/ \E t \in DOMAIN tstate : PutError(t)
    \/ \E t \in DOMAIN tstate, d \in 0..MaxWait : PutRateLimited(t, d)
    \/ \E t \in DOMAIN tstate : PutRateLimitedRaises(t)
    \/ AwaitStep
    \/ get_session_status
    \/ Tick
    \/ Restart

Spec == Init /\ [][Next]_vars

\* ------------------------------------------ a run with its status polled
\* get_session_status called from another coroutine of the event loop
\* while parallel_upload is suspended in "await task"
get_session_status_in_run ==
    /\ ctl = "run" /\ running = 0
    /\ LET session == IF sessions # NoSession THEN sessions
                      ELSE load_session(store)
       IN  returned' = [call |-> "get_session_status",
                        value |-> status_dict(session)]
    /\ UNCHANGED <<store, sessions, resumed, ctl, runOn, caller, max_concurrent,
                   semaphore, tasks, tstate, awaiting, running, rateReset>>
    /\ UNCHANGED hist
    /\ UNCHANGED planVars

\* no attempt has been made on any chunk of the session
fresh(session) ==
    \A i \in DOMAIN session.chunks :
        ~session.chunks[i].uploaded /\ session.chunks[i].retry_count = 0

\* main 'upload': parallel_upload on the session that was just created
first_upload(mc) ==
    /\ sessions # NoSession /\ fresh(sessions)
    /\ parallel_upload(mc)

\* the processes main starts ('upload', 'resume', 'status'), with the
\* status of the session polled while its run is in progress
PollNext ==
    \/ \E n \in 0..MaxChunks : create_upload_session(n, 1)
    \/ \E mc \in 1..MaxConcurrent : first_upload(mc)
    \/ resume_upload
    \/ \E t \in DOMAIN tstate : TaskStart(t)
    \/ \E t \in DOMAIN tstate : Admit(t)
    \/ \E t \in DOMAIN tstate : Wake(t)
    \/ \E t \in DOMAIN tstate : PutSuccess(t)
    \/ \E t \in DOMAIN tstate : PutError(t)
    \/ \E t \in DOMAIN tstate, d \in 0..MaxWait : PutRateLimited(t, d)
    \/ \E t \in DOMAIN tstate : PutRateLimitedRaises(t)
    \/ AwaitStep
    \/ get_session_status
    \/ get_session_status_in_run
    \/ Tick
    \/ Restart

PollSpec == Init /\ [][PollNext]_vars

\* --------------------------------------------------- analyze_network_speed
\* test_size = 1024 * 100
test_size == 1024 * 100

\* the elapsed times followed, in ms: every 10 ms up to the longest
\* answer, and every ms up to 20 ms, where the upper classes lie
ElapsedTimes == {10 * m : m \in 0..MaxElapsed} \cup 0..20

\* what the probe upload can come to: requests.post answers after elapsed
\* milliseconds, or raises (timeout, no connection)
Probes ==
    {[outcome |-> "answered", elapsed |-> e] : e \in ElapsedTimes}
        \cup {[outcome |-> "raised", elapsed |-> 0]}

\* speed_mbps < limit, speed_mbps = (test_size / elapsed) / (1024 * 1024)
\* with elapsed in seconds: test_size * 1000 / ms < limit * 1024 * 1024
speed_below(ms, limit) == (test_size * 1000) \div ms < limit * 1024 * 1024

\* the profile returned; an exception (also the division by an elapsed
\* time of zero) is caught and gives 'medium'
analyze_network_speed(p) ==
    IF p.outcome = "raised" \/ p.elapsed = 0 THEN "medium"
    ELSE IF speed_below(p.elapsed, 1) THEN "slow"
    ELSE IF speed_below(p.elapsed, 5) THEN "medium"
    ELSE IF speed_below(p.elapsed, 20) THEN "fast"
    ELSE "ultra"

\* manager.network_speed = manager.analyze_network_speed()
detect_network_speed(p) ==
    /\ probe' = p
    /\ network_speed' = analyze_network_speed(p)
    /\ UNCHANGED <<file_size, file_chunks, contents, step>>
    /\ UNCHANGED dirVars
    /\ UNCHANGED engineVars

NetNext == \E p \in Probes : detect_network_speed(p)

NetSpec == Init /\ [][NetNext]_vars

\* ------------------------------------------- one file, planned and put
\* sizes of the source file: every whole number of MiB up to MaxFileMiB,
\* and the sizes one byte short of and one byte over each
FileSizes ==
    {m * MiB + d : m \in 0..MaxFileMiB, d \in {-1, 0, 1}} \cap Nat

FileInit ==
    /\ NoRun
    /\ NoTree
    /\ probe = NoProbe
    /\ network_speed = "medium"
    /\ file_size \in FileSizes
    /\ file_chunks = <<>>
    /\ contents = <<>>
    /\ step = "new"

\* self.network_speed = self.analyze_network_speed(): before planning in
\* main and the orchestrator, before the upload in resume_upload
set_network_speed(speed) ==
    /\ step \in {"new", "planned"}
    /\ network_speed' = speed
    /\ UNCHANGED <<file_size, file_chunks, contents, step, probe>>
    /\ UNCHANGED dirVars
    /\ UNCHANGED engineVars

\* create_upload_session on a file: chunks = create_smart_chunks(...)
plan_file ==
    /\ step = "new"
    /\ file_chunks' = create_smart_chunks(file_size, network_speed)
    /\ step' = "planned"
    /\ UNCHANGED <<network_speed, file_size, contents, probe>>
    /\ UNCHANGED dirVars
    /\ UNCHANGED engineVars

\* a run in which the put of every chunk succeeds at its first attempt
upload_file ==
    /\ step = "planned"
    /\ contents' = [i \in DOMAIN file_chunks |->
                      chunk_content(file_size, network_speed, file_chunks[i])]
    /\ step' = "sent"
    /\ UNCHANGED <<network_speed, file_size, file_chunks, probe>>
    /\ UNCHANGED dirVars
    /\ UNCHANGED engineVars

FileNext ==
    \/ \E speed \in Profiles : set_network_speed(speed)
    \/ plan_file
    \/ upload_file

FileSpec == FileInit /\ [][FileNext]_vars

\* ---------------------------------- create_upload_session on a source
\* A path is <<root, sub-directory, stem, suffix>>; Path.name is the stem
\* with the suffix.
SourceRoot == <<"repo", "", "", "">>

\* compress_directory's archive in the working directory (its name carries
\* the directory's name and a time stamp, written here as the stem alone)
ArchivePath == <<"cwd", "", "repo", ".gz">>

\* the files a tree may hold, in the order rglob lists them
AllPaths ==
    << <<"repo", "a", "x", ".py">>,
       <<"repo", "a", "y", ".bin">>,
       <<"repo", "b", "x", ".py">> >>

path_name(path) == <<path[3], path[4]>>

path_suffix(path) == path[4]

\* SmartUploadManager.COMPRESSIBLE_EXTENSIONS
COMPRESSIBLE_EXTENSIONS ==
    {".txt", ".md", ".py", ".js", ".ts", ".html", ".css", ".json", ".xml",
     ".yml", ".yaml"}

\* a file: its path, its st_size, whether open(path, 'rb') succeeds
File(path, size, readable) ==
    [path |-> path, size |-> size, readable |-> readable]

\* an empty file, a small one, one over the 10 MiB that decide compression;
\* an unreadable file of any of these sizes behaves as the small one
FileKinds ==
    {[size |-> 0, readable |-> TRUE], [size |-> 1024, readable |-> TRUE],
     [size |-> 11 * MiB, readable |-> TRUE],
     [size |-> 1024, readable |-> FALSE]}

\* sizes of the archive compress_directory may write
ArchiveSizes == {1024, 6 * MiB}

RECURSIVE Ascending(_)
Ascending(S) ==
    IF S = {} THEN <<>>
    ELSE LET m == CHOOSE x \in S : \A y \in S : x <= y
         IN  <<m>> \o Ascending(S \ {m})

\* every tree of at most MaxFiles files
Trees ==
    {[k \in DOMAIN Ascending(I) |->
         File(AllPaths[Ascending(I)[k]],
              kind[Ascending(I)[k]].size, kind[Ascending(I)[k]].readable)] :
       I \in {J \in SUBSET DOMAIN AllPaths : Cardinality(J) <= MaxFiles},
       kind \in [DOMAIN AllPaths -> FileKinds]}

\* hashlib.sha256(f"{source_path}_{datetime.now()}".encode()).hexdigest()[:16],
\* free of collisions
session_id(source_path, t) == [source_path |-> source_path, now |-> t]

\* f"{session_id}_{file_path.name}_{i}"
chunk_id(sid, name, i) == [session_id |-> sid, name |-> name, index |-> i]

\* variant of smart_chunks: compressible files are cut at the 'ultra' size
smart_chunks_by_type(file, sid, speed) ==
    LET infos == create_smart_chunks(
                     file.size,
                     IF path_suffix(file.path) \in COMPRESSIBLE_EXTENSIONS
                     THEN "ultra" ELSE speed)
    IN  [k \in DOMAIN infos |->
            [chunk_id |-> chunk_id(sid, path_name(file.path),
                                   infos[k].chunk_index),
             file_path |-> file.path,
             chunk_index |-> infos[k].chunk_index,
             total_chunks |-> infos[k].total_chunks,
             size |-> infos[k].size,
             checksum |-> sha256(<<file.path, infos[k].checksum[2]>>),
             uploaded |-> FALSE, upload_time |-> NoTime, retry_count |-> 0]]

\* create_smart_chunks(file_path, session_id): the ChunkInfo list of a file
\* that can be read, with every field; the bytes hashed are the file's
smart_chunks(file, sid, speed) ==
    LET infos == create_smart_chunks(file.size, speed)
    IN  [k \in DOMAIN infos |->
            [chunk_id |-> chunk_id(sid, path_name(file.path),
                                   infos[k].chunk_index),
             file_path |-> file.path,
             chunk_index |-> infos[k].chunk_index,
             total_chunks |-> infos[k].total_chunks,
             size |-> infos[k].size,
             checksum |-> sha256(<<file.path, infos[k].checksum[2]>>),
             uploaded |-> FALSE, upload_time |-> NoTime, retry_count |-> 0]]

\* analyze_repository: stats['compressible_size']
RECURSIVE compressible_size(_, _)
compressible_size(files, k) ==
    IF k = 0 THEN 0
    ELSE compressible_size(files, k - 1)
         + (IF path_suffix(files[k].path) \in COMPRESSIBLE_EXTENSIONS
            THEN files[k].size ELSE 0)

\* "if stats['compressible_size'] > 10 * 1024 * 1024"
compresses(files) == compressible_size(files, Len(files)) > 10 * 1024 * 1024

\* variant of directory_chunks: each file's list replaces the list so far
directory_chunks_last(files, k, sid, speed) ==
    IF k = 0 THEN <<>>
    ELSE smart_chunks(files[k], sid, speed)

\* "for file_path in rglob('*'): chunks.extend(create_smart_chunks(...))"
\* over the first k files
RECURSIVE directory_chunks(_, _, _, _)
directory_chunks(files, k, sid, speed) ==
    IF k = 0 THEN <<>>
    ELSE directory_chunks(files, k - 1, sid, speed)
         \o smart_chunks(files[k], sid, speed)

all_readable(files) == \A k \in DOMAIN files : files[k].readable

\* an exception leaves create_upload_session
Raised == [raised |-> TRUE]

Planned(source_path, chunks) ==
    [raised |-> FALSE, source_path |-> source_path, chunks |-> chunks]

\* lines 333-352: analysis, compression, planning.  open() of a file that
\* cannot be read raises in tar.add and in create_smart_chunks, and nothing
\* catches it.
plan_source(files, source_path, sid, speed, archive_size) ==
    IF source_path = SourceRoot
    THEN IF ~all_readable(files) THEN Raised
         ELSE IF compresses(files)
         THEN Planned(ArchivePath,
                      smart_chunks(File(ArchivePath, archive_size, TRUE),
                                   sid, speed))
         ELSE Planned(SourceRoot,
                      directory_chunks(files, Len(files), sid, speed))
    ELSE LET file == files[CHOOSE k \in DOMAIN files :
                                  files[k].path = source_path]
         IN  IF ~file.readable THEN Raised
             ELSE Planned(source_path, smart_chunks(file, sid, speed))

\* sum(c.size for c in chunks) over the chunks lo..hi of the list; the
\* range is halved so that the evaluation stays shallow for a long list
RECURSIVE total_size(_, _, _)
total_size(chunks, lo, hi) ==
    IF lo > hi THEN 0
    ELSE IF lo = hi THEN chunks[lo].size
    ELSE LET mid == (lo + hi) \div 2
         IN  total_size(chunks, lo, mid) + total_size(chunks, mid + 1, hi)

\* UploadSession(...) of lines 354-361
new_session(sid, repo_name, source_path, chunks, t) ==
    [session_id |-> sid, repo_name |-> repo_name,
     source_path |-> source_path,
     total_size |-> total_size(chunks, 1, Len(chunks)),
     chunks |-> chunks, start_time |-> t,
     completed |-> FALSE, progress_percentage |-> ZeroPercent]

\* variant of save_session: the file is not written
save_session_skipped(files, session) == files

\* save_session: the session's file is written over
save_session(files, session) ==
    (session.session_id :> asdict(session)) @@ files

\* the content of .upload_sessions/<id>.json, NoSession when there is none
session_file(files, sid) ==
    IF sid \in DOMAIN files THEN files[sid] ELSE NoSession

\* paths create_upload_session is called with: the directory, or one file
SourcePaths == {SourceRoot} \cup {tree[k].path : k \in DOMAIN tree}

\* the manager after its network speed was detected, a tree on disk
DirInit ==
    /\ NoRun
    /\ probe = NoProbe
    /\ network_speed \in Profiles
    /\ file_size = 0
    /\ file_chunks = <<>>
    /\ contents = <<>>
    /\ step = "new"
    /\ tree \in Trees
    /\ now = 0
    /\ calls = 0
    /\ registry = <<>>
    /\ session_files = <<>>
    /\ call = [outcome |-> "none"]

\* create_upload_session(source_path, repo_name): datetime.now() reads t1
\* for the session id and t2 for start_time
create_upload_session_on(source_path, repo_name, t1, t2, archive_size) ==
    /\ calls < MaxCalls
    /\ t1 >= now /\ t2 >= t1
    /\ now' = t2
    /\ calls' = calls + 1
    /\ LET sid == session_id(source_path, t1)
           plan == plan_source(tree, source_path, sid, network_speed,
                               archive_size)
       IN  IF plan.raised
           THEN /\ call' = [outcome |-> "raised", source_path |-> source_path,
                            repo_name |-> repo_name]
                /\ UNCHANGED <<registry, session_files>>
           ELSE LET session == new_session(sid, repo_name, plan.source_path,
                                           plan.chunks, t2)
                IN  /\ registry' = (sid :> session) @@ registry
                    /\ session_files' = save_session(session_files, session)
                    /\ call' = [outcome |-> "returned",
                                source_path |-> source_path,
                                repo_name |-> repo_name,
                                session |-> session]
    /\ UNCHANGED tree
    /\ UNCHANGED fileVars
    /\ UNCHANGED engineVars

DirNext ==
    \E source_path \in SourcePaths, t1, t2 \in 1..MaxClock,
       archive_size \in ArchiveSizes :
        create_upload_session_on(source_path, "owner/repo", t1, t2,
                                 archive_size)

DirSpec == DirInit /\ [][DirNext]_vars

\* ------------------------------------------------------------- properties
Range(seq) == {seq[i] : i \in DOMAIN seq}

\* session objects of the process
Objects == {sessions, resumed} \ {NoSession}

\* every uploaded chunk of the session or saved record s is acknowledged
AllAcked(s) ==
    s # NoSession => \A i \in DOMAIN s.chunks : s.chunks[i].uploaded => i \in acked

\* tasks admitted past the semaphore and not finished
InProgress == TasksIn({"calling", "backoff", "ratewait"})

\* the run's session object after the step
curNext == IF runOn = "sessions" THEN sessions' ELSE resumed'

\* C1: after a restart, resume_upload puts no chunk that the remote had
\* acknowledged before the stop.
C1_NoReuploadAfterRestart ==
    (restarted /\ ctl = "run" /\ running # 0) => tasks[running] \notin ackedAtStop

\* C2: during a run the saved record's uploaded flags differ from the
\* session's only for chunks whose upload is in flight.
C2_SavedAfterEveryTransition ==
    (ctl = "run" /\ store # NoSession) =>
        \A i \in DOMAIN cur.chunks :
            store.chunks[i].uploaded # cur.chunks[i].uploaded =>
                \E t \in InProgress : tasks[t] = i

\* C3: a run puts only chunks that are not uploaded, and leaves the
\* uploaded, upload_time and retry_count of uploaded chunks as they are.
C3_RunSkipsUploaded ==
    /\ [](ctl = "run" /\ running # 0 => ~cur.chunks[tasks[running]].uploaded)
    /\ [][(ctl = "run" /\ curNext # NoSession) =>
            \A i \in DOMAIN cur.chunks :
                cur.chunks[i].uploaded => curNext.chunks[i] = cur.chunks[i]]_vars

\* a second run on a session that holds an uploaded chunk is inside the
\* remote call for another chunk
C3_Witness ==
    /\ ctl = "run" /\ running # 0
    /\ \E i \in DOMAIN cur.chunks : cur.chunks[i].uploaded /\ i \notin Range(tasks)

\* C4: a chunk is uploaded only if a remote put for it has returned success.
C4_UploadedOnlyIfAcked ==
    AllAcked(sessions) /\ AllAcked(resumed) /\ AllAcked(store)

\* one chunk uploaded, another one failed max_retries times and not uploaded
C4_Witness ==
    \E s \in Objects : \E i, j \in DOMAIN s.chunks :
        /\ s.chunks[i].uploaded
        /\ ~s.chunks[j].uploaded /\ s.chunks[j].retry_count = max_retries

\* C5: at most max_concurrent uploads are in progress, sleeping ones included.
C5_BoundedConcurrency ==
    ctl = "run" => Cardinality(InProgress) <= max_concurrent

\* the semaphore is exhausted by a sleeping task while another chunk waits
C5_Witness ==
    /\ ctl = "run"
    /\ Cardinality(InProgress) = max_concurrent
    /\ TasksIn({"backoff", "ratewait"}) # {}
    /\ TasksIn({"waiting"}) # {}

\* C6: every chunk that is not uploaded has exactly one upload task, and no
\* chunk has two uploads in progress.
C6_OneTaskPerChunk ==
    ctl = "run" =>
        /\ \A i \in DOMAIN cur.chunks :
              ~cur.chunks[i].uploaded =>
                  Cardinality({t \in DOMAIN tasks : tasks[t] = i}) = 1
        /\ \A i \in DOMAIN cur.chunks :
              Cardinality({t \in InProgress : tasks[t] = i}) <= 1

\* two uploads in progress at once, one of them inside the remote call
C6_Witness ==
    ctl = "run" /\ Cardinality(InProgress) >= 2 /\ running # 0

\* C7: after a rate-limit signal no pending chunk starts uploading until
\* the reported reset time has passed.
C7_GlobalRateLimitPause ==
    [][\A t \in DOMAIN tstate \cap DOMAIN tstate' :
          (ctl = "run" /\ tstate[t].pc \in {"created", "waiting"}
                       /\ tstate'[t].pc = "calling") => rateReset = 0]_vars

\* C8: after a failed attempt a the task sleeps 2^a time units, all of
\* them, before attempt a + 1; there are at most max_retries attempts and
\* no sleep after the last one.
C8_ExponentialBackoff ==
    /\ [](\A t \in DOMAIN tstate :
            /\ tstate[t].pc = "backoff" => tstate[t].attempt < max_retries - 1
            /\ tstate[t].pc = "calling" => tstate[t].attempt < max_retries)
    /\ [][\A t \in DOMAIN tstate \cap DOMAIN tstate' :
            /\ (tstate[t].pc = "calling" /\ tstate'[t].pc = "backoff") =>
                  tstate'[t].timer = Pow2(tstate[t].attempt)
            /\ (tstate[t].pc = "backoff" /\ tstate'[t].pc = "backoff") =>
                  tstate'[t].timer >= tstate[t].timer - 1
            /\ (tstate[t].pc = "backoff" /\ tstate'[t].pc = "calling") =>
                  /\ tstate[t].timer = 0
                  /\ tstate'[t].attempt = tstate[t].attempt + 1]_vars

\* the second backoff of a task has run its 2 time units
C8_Witness ==
    \E t \in DOMAIN tstate :
        tstate[t].pc = "backoff" /\ tstate[t].attempt = 1 /\ tstate[t].timer = 0

\* C9: a task gives its chunk up only with retry_count = max_retries, and
\* a failure that is retried adds exactly 1 to retry_count.
C9_GiveUpOnlyAtMaxRetries ==
    /\ [](ctl = "run" =>
            \A t \in DOMAIN tstate :
                (tstate[t].pc = "done" /\ ~tstate[t].result) =>
                    cur.chunks[tasks[t]].retry_count = max_retries)
    /\ [][\A t \in DOMAIN tstate \cap DOMAIN tstate' :
            (tstate[t].pc = "calling" /\ tstate'[t].pc = "backoff") =>
                curNext.chunks[tasks[t]].retry_count =
                    cur.chunks[tasks[t]].retry_count + 1]_vars

\* C10: a rate-limited attempt leaves retry_count and the number of
\* attempts left as they were.
C10_RateLimitNotCounted ==
    [][\A t \in DOMAIN tstate \cap DOMAIN tstate' :
          /\ (tstate[t].pc = "calling" /\ tstate'[t].pc = "ratewait") =>
                curNext.chunks[tasks[t]].retry_count =
                    cur.chunks[tasks[t]].retry_count
          /\ (ctl = "run" /\ tstate[t].pc = "ratewait") =>
                /\ tstate'[t].pc # "done"
                /\ tstate'[t].pc = "calling" =>
                      tstate'[t].attempt = tstate[t].attempt]_vars

\* every chunk of the session or saved record s is uploaded
AllUploaded(s) == \A i \in DOMAIN s.chunks : s.chunks[i].uploaded

\* 100 percent, as Percentage gives it
HundredPercent == <<1, 1>>

\* C11: no failure of a chunk's attempt leaves upload_chunk_to_github as an
\* exception, so parallel_upload never ends by raising.
C11_ErrorsContained == ctl # "raised"

\* C12: a run makes no first attempt for a chunk whose retry_count has
\* reached max_retries.
C12_FailedNotReattempted ==
    (ctl = "run" /\ running # 0 /\ tstate[running].attempt = 0) =>
        cur.chunks[tasks[running]].retry_count < max_retries

\* C13: a session, in memory or saved, that is completed has every chunk
\* uploaded.
C13_CompletedImpliesAllUploaded ==
    /\ (sessions # NoSession /\ sessions.completed) => AllUploaded(sessions)
    /\ (resumed # NoSession /\ resumed.completed) => AllUploaded(resumed)
    /\ (store # NoSession /\ store.completed) => AllUploaded(store)

\* resume_upload has marked a session of at least one chunk completed
C13_Witness ==
    \E s \in Objects : s.completed /\ Len(s.chunks) >= 1

\* C14: when a run returns with every chunk uploaded, the session is
\* completed and its progress_percentage is 100.
C14_CompletedAfterFullRun ==
    [][(ctl = "run" /\ ctl' = "idle" /\ curNext # NoSession
                    /\ AllUploaded(curNext)) =>
            /\ curNext.completed
            /\ curNext.progress_percentage = HundredPercent]_vars

\* C15: once parallel_upload has returned, progress_percentage of a session
\* of at least one chunk is the fraction of its chunks that are uploaded.
C15_ProgressIsChunkFraction ==
    ctl = "idle" =>
        \A s \in Objects :
            Len(s.chunks) >= 1 =>
                s.progress_percentage =
                    Percentage(uploaded_count(s), Len(s.chunks))

\* a run has returned with one of two chunks uploaded, the other given up
C15_Witness ==
    /\ ctl = "idle"
    /\ \E s \in Objects :
          /\ Len(s.chunks) = 2 /\ uploaded_count(s) = 1
          /\ \E i \in DOMAIN s.chunks : s.chunks[i].retry_count >= max_retries

\* sum of the sizes of the first k chunks of the list ch
SizeUpTo(ch, k) == total_size(ch, 1, k)

\* the bytes chunk k of the list was read and hashed from, by its checksum
HashedBytes(ch, k) == ch[k].checksum[2]

\* the step taken is create_smart_chunks on a file of the given kind
PlansFile == step = "new" /\ step' = "planned"

\* base chunk sizes and chunk counts as the statements give them
StatedBase == [slow |-> 1 * MiB, medium |-> 5 * MiB,
               fast |-> 10 * MiB, ultra |-> 25 * MiB]

StatedCount15 == [slow |-> 15, medium |-> 3, fast |-> 2, ultra |-> 1]

\* C16: the chunks planned for a file of S > 0 bytes are numbered 0..n-1
\* with total_chunks = n = ceil(S / chunkSize); all but the last hold
\* chunkSize bytes, the last holds S - (n-1)*chunkSize bytes, more than 0
\* and at most chunkSize; the sizes add up to S and the ranges read follow
\* each other from 0 to S.
C16_ChunksTileFile ==
    [][(PlansFile /\ file_size > 0) =>
          LET S == file_size
              cs == chunk_size(file_size, network_speed)
              ch == file_chunks'
              n == Len(ch)
          IN  /\ n >= 1
              /\ (n - 1) * cs < S /\ S <= n * cs
              /\ \A k \in 1..n :
                    ch[k].chunk_index = k - 1 /\ ch[k].total_chunks = n
              /\ \A k \in 1..(n - 1) : ch[k].size = cs
              /\ ch[n].size = S - (n - 1) * cs
              /\ ch[n].size > 0 /\ ch[n].size <= cs
              /\ SizeUpTo(ch, n) = S
              /\ HashedBytes(ch, 1)[1] = 0
              /\ HashedBytes(ch, n)[2] = S
              /\ \A k \in 1..(n - 1) :
                    HashedBytes(ch, k)[2] = HashedBytes(ch, k + 1)[1]]_vars

\* a file over 100 MiB is planned in several chunks, the last one shorter
C16_Witness ==
    /\ step = "planned" /\ file_size > 100 * MiB
    /\ Len(file_chunks) >= 2
    /\ file_chunks[Len(file_chunks)].size < file_chunks[1].size

\* C17: the content put for a chunk is the bytes the chunk's checksum was
\* computed over.
C17_SentBytesArePlannedBytes ==
    step = "sent" =>
        \A k \in DOMAIN file_chunks :
            sha256(b64decode(contents[k])) = file_chunks[k].checksum

\* C18: hashing the size bytes at a chunk's offset, the sum of the sizes of
\* the chunks before it, gives the chunk's checksum.
C18_ChecksumOfOwnRange ==
    step \in {"planned", "sent"} =>
        \A k \in DOMAIN file_chunks :
            sha256(read(file_size, SizeUpTo(file_chunks, k - 1),
                        file_chunks[k].size)) = file_chunks[k].checksum

\* a file of three chunks or more, the third hashed from past the start
C18_Witness ==
    /\ step = "planned" /\ Len(file_chunks) >= 3
    /\ HashedBytes(file_chunks, 3)[1] > 0
    /\ file_chunks[Len(file_chunks)].size % MiB # 0

\* C19: a file of at most 100 MiB is planned in ceil(S / base) chunks, all
\* but the last of the profile's base size; a non-empty file of at most
\* base bytes gives one chunk with total_chunks = 1, and a file of 15 MiB
\* gives 15, 3, 2 and 1 chunks.
C19_BaseSizeUpTo100MiB ==
    [][(PlansFile /\ file_size <= 100 * MiB) =>
          LET S == file_size
              base == StatedBase[network_speed]
              ch == file_chunks'
              n == Len(ch)
          IN  /\ S <= n * base
              /\ n > 0 => (n - 1) * base < S
              /\ \A k \in 1..(n - 1) : ch[k].size = base
              /\ (S > 0 /\ S <= base) => n = 1 /\ ch[1].total_chunks = 1
              /\ S = 15 * MiB => n = StatedCount15[network_speed]]_vars

\* the 15 MiB file planned on the slow profile
C19_Witness ==
    /\ step = "planned" /\ file_size = 15 * MiB
    /\ Len(file_chunks) = 15

\* C20: a file over 100 MiB is planned in chunks of min(2 * base, 50 MiB),
\* none over 50 MiB; a file of exactly 100 MiB is planned in chunks of the
\* base size; 150 MiB on the fast profile gives 8 chunks, seven of 20 MiB
\* and a last one of 10 MiB.
C20_AdaptiveSizeOver100MiB ==
    [][PlansFile =>
          LET S == file_size
              base == StatedBase[network_speed]
              ch == file_chunks'
              n == Len(ch)
          IN  /\ S > 100 * MiB =>
                    /\ \A k \in 1..n : ch[k].size <= 50 * MiB
                    /\ \A k \in 1..(n - 1) :
                          ch[k].size = min(2 * base, 50 * MiB)
              /\ S = 100 * MiB =>
                    /\ n * base = S
                    /\ \A k \in 1..n : ch[k].size = base
              /\ (S = 150 * MiB /\ network_speed = "fast") =>
                    /\ n = 8
                    /\ \A k \in 1..7 : ch[k].size = 20 * MiB
                    /\ ch[8].size = 10 * MiB]_vars

\* the 150 MiB file planned in 8 chunks with a last one of 10 MiB
C20_Witness ==
    /\ step = "planned" /\ file_size = 150 * MiB
    /\ Len(file_chunks) = 8
    /\ file_chunks[8].size = 10 * MiB

C26_NotFoundIsAValue ==
    /\ [](store = NoSession =>
            /\ load_session(store) = NoSession
            /\ returned.call = "resume_upload" => returned.value = FALSE
            /\ returned.call = "get_session_status" =>
                  (sessions = NoSession => returned.value = SessionNotFound))
    /\ [][(store = NoSession /\ store' = NoSession) =>
            /\ sessions' = sessions /\ resumed' = resumed
            /\ ctl' = "idle" /\ tasks' = <<>> /\ running' = 0
            /\ acked' = acked]_vars

\* resume_upload has returned False for want of a saved record
C26_Witness ==
    store = NoSession /\ returned = NotFoundFalse

\* the sessions registered so far
Sessions == {registry[sid] : sid \in DOMAIN registry}

\* the chunks of session s that were cut from the file at path
ChunksOf(session, path) ==
    SelectSeq(session.chunks, LAMBDA c : c.file_path = path)

SizesOf(chunkseq) == [k \in DOMAIN chunkseq |-> chunkseq[k].size]

\* session s planned the file at path as a file of the tree
PlansPath(session, path) == session.source_path \in {SourceRoot, path}

\* the last call returned a session
Returned == call.outcome = "returned"

\* the last call was made on the directory
OnDirectory == call.outcome # "none" /\ call.source_path = SourceRoot

\* the list is one file's whole plan: indexed 0..n-1, total_chunks = n
OwnIndexing(chunkseq) ==
    \A k \in DOMAIN chunkseq :
        /\ chunkseq[k].chunk_index = k - 1
        /\ chunkseq[k].total_chunks = Len(chunkseq)

\* C21: files of the same size are cut into the same number of chunks of
\* the same sizes, whichever file and whichever session they belong to.
C21_SizesDependOnSizeOnly ==
    \A s1, s2 \in Sessions : \A k1, k2 \in DOMAIN tree :
        (/\ tree[k1].size = tree[k2].size
         /\ PlansPath(s1, tree[k1].path) /\ PlansPath(s2, tree[k2].path)) =>
            SizesOf(ChunksOf(s1, tree[k1].path)) =
                SizesOf(ChunksOf(s2, tree[k2].path))

\* two sessions with different ids, each on a file of its own, both files
\* cut into the same two or more chunk sizes
C21_Witness ==
    \E s1, s2 \in Sessions :
        /\ s1.session_id # s2.session_id
        /\ s1.source_path # s2.source_path
        /\ SourceRoot \notin {s1.source_path, s2.source_path}
        /\ Len(s1.chunks) >= 2
        /\ SizesOf(s1.chunks) = SizesOf(s2.chunks)

\* C22: the chunk ids of a session are pairwise distinct, and the saved
\* and loaded session carries the same ids.
C22_ChunkIdsDistinct ==
    Returned =>
        LET s == call.session
            loaded == load_session(session_file(session_files, s.session_id))
        IN  /\ \A i, j \in DOMAIN s.chunks :
                  i # j => s.chunks[i].chunk_id # s.chunks[j].chunk_id
            /\ \A i \in DOMAIN s.chunks :
                  loaded.chunks[i].chunk_id = s.chunks[i].chunk_id

\* the source path the session of the last call carries: the path given,
\* or the archive's when the directory was compressed first
SourcePathKept ==
    IF call.source_path = SourceRoot /\ compresses(tree)
    THEN ArchivePath ELSE call.source_path

\* what C24 states of session s, but for its source_path
PersistedAsReturned(s) ==
    /\ load_session(session_file(session_files, s.session_id)) = s
    /\ s.repo_name = call.repo_name
    /\ s.total_size = SizeUpTo(s.chunks, Len(s.chunks))
    /\ \A i \in DOMAIN s.chunks : ~s.chunks[i].uploaded
    /\ ~s.completed

\* C24 as stated: the session create_upload_session returned is the one
\* saved under its id, with the repo_name and the source_path given,
\* total_size the sum of its chunk sizes, no chunk uploaded, not completed.
C24_PersistedWithGivenPath ==
    Returned =>
        /\ PersistedAsReturned(call.session)
        /\ call.session.source_path = call.source_path

\* C24 as amended: the same, with source_path the path given or, for a
\* directory that was compressed first, the path of the archive.
C24_PersistedAtCreation ==
    Returned =>
        /\ PersistedAsReturned(call.session)
        /\ call.session.source_path = SourcePathKept

\* a session was returned for a directory that was compressed first
C24_Witness ==
    /\ Returned
    /\ call.session.source_path = ArchivePath
    /\ Len(call.session.chunks) >= 1

\* C25: a session that is created gets an id no earlier session has, and
\* its file is a new one.
C25_SessionIdsUnique ==
    [][(calls' = calls + 1 /\ call'.outcome = "returned") =>
          /\ call'.session.session_id \notin DOMAIN registry
          /\ call'.session.session_id \notin DOMAIN session_files]_vars

\* C27: a directory with a file that cannot be read still gives a session,
\* holding the chunks of its files that can be read.
C27_UnreadableFileOnly ==
    (OnDirectory /\ ~all_readable(tree)) =>
        /\ Returned
        /\ \A k \in DOMAIN tree :
              (tree[k].readable /\ tree[k].size > 0) =>
                  ChunksOf(call.session, tree[k].path) # <<>>

\* C28: a call on a file of size 0 ends in an error, and no session holds
\* a chunk of size 0.
C28_EmptyFileIsAnError ==
    /\ (call.outcome # "none" /\ call.source_path # SourceRoot) =>
          \A k \in DOMAIN tree :
              (tree[k].path = call.source_path /\ tree[k].size = 0) =>
                  call.outcome = "raised"
    /\ \A s \in Sessions : \A i \in DOMAIN s.chunks : s.chunks[i].size > 0

\* the chunk list holds, file after file in the order of the tree, each
\* file's own plan
PerFileLists(session) ==
    /\ \A i \in DOMAIN session.chunks :
          \E k \in DOMAIN tree : session.chunks[i].file_path = tree[k].path
    /\ \A i, j \in DOMAIN session.chunks : \A k, l \in DOMAIN tree :
          (/\ i < j
           /\ session.chunks[i].file_path = tree[k].path
           /\ session.chunks[j].file_path = tree[l].path) => k <= l
    /\ \A k \in DOMAIN tree :
          LET own == ChunksOf(session, tree[k].path)
          IN  /\ OwnIndexing(own)
              /\ SizeUpTo(own, Len(own)) = tree[k].size

C30_SmallDirectoryOneChunk ==
    (/\ Returned /\ OnDirectory
     /\ Len(tree) >= 2
     /\ \A k \in DOMAIN tree : tree[k].size > 0
     /\ SizeUpTo(tree, Len(tree)) < CHUNK_SIZES[network_speed]) =>
        Len(call.session.chunks) = 1

\* the session get_session_status looks up: the registered one, else the
\* saved one
Looked == IF sessions # NoSession THEN sessions ELSE load_session(store)

\* a step of get_session_status that hands back something new
StatusStep == returned'.call = "get_session_status" /\ returned' # returned

UploadedOf(s) == SelectSeq(s.chunks, LAMBDA c : c.uploaded)

\* value, a reduced fraction, is n / (1024 * 1024)
IsMb(value, n) ==
    /\ MiB % value[2] = 0
    /\ value[1] * (MiB \div value[2]) = n

\* C31: get_session_status leaves the session, the registry, the store and
\* the run as they are, also during a run, and reports the number of
\* chunks, the number of uploaded chunks and the summed size of the
\* uploaded chunks of the session.
C31_StatusReadsOnly ==
    [][StatusStep =>
          /\ UNCHANGED <<store, sessions, resumed, ctl, runOn, caller,
                         max_concurrent, semaphore, tasks, tstate, awaiting,
                         running, rateReset, acked>>
          /\ IF Looked = NoSession THEN returned'.value = SessionNotFound
             ELSE /\ returned'.value.total_chunks = Len(Looked.chunks)
                  /\ returned'.value.uploaded_chunks = Len(UploadedOf(Looked))
                  /\ IsMb(returned'.value.uploaded_size_mb,
                          SizeUpTo(UploadedOf(Looked), Len(UploadedOf(Looked))))
                  /\ IsMb(returned'.value.total_size_mb, Looked.total_size)]_vars

\* the status was read during a run, some chunks uploaded and some not
C31_Witness ==
    /\ ctl = "run"
    /\ returned.call = "get_session_status"
    /\ sessions # NoSession
    /\ returned.value.uploaded_chunks > 0
    /\ returned.value.uploaded_chunks < returned.value.total_chunks

\* what planning wrote into session s and a run has no business with
PlannedPart(s) ==
    [session_id |-> s.session_id, repo_name |-> s.repo_name,
     source_path |-> s.source_path, total_size |-> s.total_size,
     start_time |-> s.start_time,
     chunks |-> [i \in DOMAIN s.chunks |->
                   [chunk_id |-> s.chunks[i].chunk_id,
                    file_path |-> s.chunks[i].file_path,
                    chunk_index |-> s.chunks[i].chunk_index,
                    total_chunks |-> s.chunks[i].total_chunks,
                    size |-> s.chunks[i].size,
                    checksum |-> s.chunks[i].checksum]]]

\* C32: a run leaves the chunk list and every planned field of the
\* session and of its chunks as they are; only uploaded, upload_time,
\* retry_count, progress_percentage and completed change.
C32_RunKeepsThePlan ==
    [][/\ (sessions # NoSession /\ sessions' # NoSession) =>
              PlannedPart(sessions') = PlannedPart(sessions)
       /\ (resumed # NoSession /\ resumed' # NoSession) =>
              PlannedPart(resumed') = PlannedPart(resumed)
       /\ (ctl = "run" /\ ctl' = "run") => store' = store]_vars

\* a run has uploaded one chunk and counted an error on another
C32_Witness ==
    /\ ctl = "run"
    /\ \E i, j \in DOMAIN cur.chunks :
          cur.chunks[i].uploaded /\ cur.chunks[j].retry_count > 0

\* C33: a task that was told a reset time makes no remote call before
\* that time has come.
C33_WaitsForReset ==
    [][\A t \in DOMAIN tstate :
          (/\ tstate[t].pc = "ratewait" /\ tstate[t].timer > 0
           /\ t \in DOMAIN tstate') =>
              tstate'[t].pc # "calling"]_vars

\* a task is waiting for a reset time that is still ahead
C33_Witness ==
    \E t \in DOMAIN tstate :
        /\ tstate[t].pc = "ratewait" /\ tstate[t].timer > 0
        /\ rateReset > 0

\* C34: a probe answered after 10 s is classed slow, after 1 s medium,
\* after 0.2 s fast and after 0.05 s ultra.
C34_ProbeClasses ==
    probe.outcome = "answered" =>
        /\ probe.elapsed = 10000 => network_speed = "slow"
        /\ probe.elapsed = 1000 => network_speed = "medium"
        /\ probe.elapsed = 200 => network_speed = "fast"
        /\ probe.elapsed = 50 => network_speed = "ultra"

\* C35: for a file cut at the base chunk size, the bytes put for a chunk
\* are the bytes its checksum was computed over, whatever profile is
\* detected between planning and the upload.
C35_ResumeSendsPlannedRange ==
    (step = "sent" /\ ~is_large_file(file_size)) =>
        \A k \in DOMAIN file_chunks :
            b64decode(contents[k]) = HashedBytes(file_chunks, k)

\* C36: the status asked for after resume_upload returned True says
\* completed, with every chunk uploaded.
C36_StatusAfterResume ==
    [][(/\ returned = [call |-> "resume_upload", value |-> TRUE]
        /\ returned'.call = "get_session_status") =>
           /\ returned'.value # SessionNotFound
           /\ returned'.value.completed
           /\ returned'.value.uploaded_chunks = returned'.value.total_chunks]_vars

\* C37: the chunks reported as uploaded and those reported as failed are
\* no more than the chunks there are.
C37_UploadedAndFailedDisjoint ==
    (returned.call = "get_session_status" /\ returned.value # SessionNotFound) =>
        returned.value.uploaded_chunks + returned.value.failed_chunks
            <= returned.value.total_chunks

\* C38: a session that is completed stands at 100 percent.
C38_CompletedAtHundred ==
    \A s \in Objects : s.completed => s.progress_percentage = HundredPercent

\* the session as the process finds it: the object of the run, the object
\* it holds, or else the saved record
Current ==
    IF ctl = "run" THEN cur
    ELSE IF resumed # NoSession THEN resumed
    ELSE IF sessions # NoSession THEN sessions
    ELSE load_session(store)

CurrentNext ==
    IF ctl' = "run" THEN curNext
    ELSE IF resumed' # NoSession THEN resumed'
    ELSE IF sessions' # NoSession THEN sessions'
    ELSE load_session(store')

\* the fraction p is at most the fraction q
AtMost(p, q) == p[1] * q[2] <= q[1] * p[2]

\* C39: over any step a chunk that is uploaded stays uploaded, no
\* retry_count goes down, and within a run progress_percentage does not
\* go down.
C39_StatusMonotone ==
    [][(Current # NoSession /\ CurrentNext # NoSession) =>
          /\ \A i \in DOMAIN Current.chunks :
                /\ Current.chunks[i].uploaded => CurrentNext.chunks[i].uploaded
                /\ Current.chunks[i].retry_count
                       <= CurrentNext.chunks[i].retry_count
          /\ (ctl = "run" /\ ctl' = "run") =>
                AtMost(Current.progress_percentage,
                       CurrentNext.progress_percentage)]_vars

\* C40: when a run is over, every task it created has been attempted and
\* has ended.
C40_RunEndsWithItsTasks ==
    ctl # "run" =>
        \A t \in DOMAIN tstate : tstate[t].pc \in {"done", "raised"}

====
